---- MODULE Spec2Model ----
(***************************************************************************)
(* Model of the connector service BaseService of the ConnectionTester web  *)
(* part: the Graph-based revision (src/src/services/BaseService.ts) and    *)
(* the last REST-based revision (src/unnamed/part_001, second file).       *)
(*                                                                         *)
(* JavaScript runs a handler to completion between two awaits, so every    *)
(* action below is one such run: from the arrival of a response (or the    *)
(* call of a public operation) up to the next request the code awaits, or  *)
(* up to the settlement of the operation's promise.                        *)
(***************************************************************************)
EXTENDS Integers, Sequences, FiniteSets, TLC

\* ------------------------------------------------------------------ bounds

\* Public operations invoked on one service instance, one after the other.
MaxOps == 1
\* Requests the environment lets fail during the life of one instance.
MaxFailures == 2

\* ------------------------------------------------------- program constants

requiredLists == <<"Staff", "StaffGroups", "GroupMembers", "WeeklySchedule", "TypeOfWorkers">>

AuthFailedMessage == "Authorization to remote site failed. Check application permissions."

ListNotFoundMessage(listTitle) == "List \"" \o listTitle \o "\" not found"

NoItemsMessage(listTitle) == "No items found in list \"" \o listTitle \o "\""

\* ------------------------------------------------------- the environment

Revisions == {"graph", "rest"}

\* null of a site id
NoSite == "null"
\* What GET /sites/{hostname}:{path} answers as `id`.
SiteIdAnswers == {"site-1"}

\* Status codes of a rejected HTTP request: one the code treats as an
\* authorization failure (401/403) and one it does not.
HttpStatuses == {403, 404}

HttpMessage(status) == IF status = 403 THEN "Access denied" ELSE "Not found"

\* The error a rejected request carries (statusCode 0: the field is absent).
HttpError(status) == [message |-> HttpMessage(status), statusCode |-> status]
ClientError == [message |-> "Failed to get Graph client", statusCode |-> 0]
Error(message) == [message |-> message, statusCode |-> 0]

NoValue == [none |-> TRUE]

\* Titles a caller passes to checkListExists / updateFirstItemTitleField.
ListTitles == {"Staff", "Custom"}

\* Item ids as the characters of the string the server sends.
ItemIds == {<<"7">>, <<"1", "2">>}

\* ----------------------------------------------------------- pure helpers

Range(s) == {s[i] : i \in DOMAIN s}

\* JavaScript truthiness of an optional string property.
Truthy(r, f) == f \in DOMAIN r /\ r[f] # ""

DigitValue(c) ==
  CASE c = "0" -> 0 [] c = "1" -> 1 [] c = "2" -> 2 [] c = "3" -> 3 [] c = "4" -> 4
    [] c = "5" -> 5 [] c = "6" -> 6 [] c = "7" -> 7 [] c = "8" -> 8 [] c = "9" -> 9
    [] OTHER -> -1

\* NaN of parseInt
NaN == -1

RECURSIVE ParseDigits(_, _, _)
ParseDigits(s, i, acc) ==
  IF i > Len(s) \/ DigitValue(s[i]) < 0 THEN acc
  ELSE ParseDigits(s, i + 1, acc * 10 + DigitValue(s[i]))

\* parseInt(s, 10) on a string without sign or leading blanks.
parseInt(s) ==
  IF Len(s) = 0 \/ DigitValue(s[1]) < 0 THEN NaN ELSE ParseDigits(s, 1, 0)

\* ------------------------------------------------------------------- state

VARIABLES
  revision,        \* which revision of BaseService this instance is
  _isAuthorized,   \* BaseService._isAuthorized
  _targetSiteId,   \* BaseService._targetSiteId
  ctorPc,          \* where the initGraphAuthorization the constructor started is
  op,              \* the current invocation of a public operation
  opCount,         \* invocations started so far
  failures,        \* requests that failed so far
  ui,              \* the state of a ConnectionTest component using the service
  eq,              \* the two revisions' checkAllRequiredLists under one scenario
  pure             \* an input and the output of a shape transformation

\* What lies outside the service instance.
outside == <<ui, eq, pure>>

vars == <<revision, _isAuthorized, _targetSiteId, ctorPc, op, opCount, failures,
          ui, eq, pure>>

\* `!this._isAuthorized || !this._targetSiteId` negated
Authorized(a, s) == a /\ s # NoSite

IdleOp ==
  [kind |-> "none", pc |-> "idle", listTitle |-> "", newValue |-> "", idx |-> 0,
   listData |-> NoValue, itemId |-> <<>>, results |-> <<>>, value |-> NoValue,
   updatedItemResponse |-> NoValue,
   logs |-> 0, initRuns |-> 0, authThrewAt |-> {}, reqs |-> <<>>]

\* A request is issued: it is appended to the invocation's trace, with whether
\* initGraphAuthorization or the operation's body issued it and whether the
\* service was authorized at that moment, and the invocation awaits it.
Issue(o, kind, pc, a, s) ==
  [o EXCEPT !.pc = pc,
            !.reqs = Append(@, [kind |-> kind, target |-> o.listTitle,
                                phase |-> IF pc \in {"authClient", "authSite"}
                                          THEN "auth" ELSE "body",
                                authorized |-> Authorized(a, s),
                                outcome |-> "pending", error |-> NoValue])]

\* The awaited request (the last of the trace) is answered.
Settle(o, outcome, error) ==
  [o EXCEPT !.reqs[Len(o.reqs)].outcome = outcome,
            !.reqs[Len(o.reqs)].error = error]

Terminal(o) == o.pc \in {"resolved", "rejected"}

Init ==
  /\ revision \in Revisions
  /\ _isAuthorized = FALSE
  /\ _targetSiteId = NoSite
  /\ ctorPc = IF revision = "graph" THEN "getClient" ELSE "done"
  /\ op = IdleOp
  /\ opCount = 0
  /\ failures = 0
  /\ ui = NoValue
  /\ eq = NoValue
  /\ pure = NoValue


\* --------------------------------------------- control flow of the service

\* `if (!this._isAuthorized || !this._targetSiteId)`
NeedsInit(a, s) == ~a \/ s = NoSite

\* initGraphAuthorization is entered: it logs and awaits getClient('3').
initGraphAuthorization(o, a, s) ==
  Issue([o EXCEPT !.initRuns = @ + 1], "getClient", "authClient", a, s)

\* REST revision: the first request of an operation's body.
restBody(o, a, s) ==
  CASE o.kind = "test" -> Issue(o, "web", "web", a, s)
    [] o.kind = "update" -> Issue(o, "items", "ritems", a, s)
    [] OTHER -> Issue(o, "list", "list", a, s)

\* The body of an operation after `await this.ensureAuthorization()`:
\* the Graph revision awaits getClient('3') first.
body(o, a, s) ==
  IF revision = "graph" THEN Issue(o, "getClient", "client", a, s)
  ELSE restBody(o, a, s)

\* `await this.ensureAuthorization()` at the head of an operation, up to the
\* first request it or the body awaits.
ensureAuthorization(o, a, s) ==
  IF revision = "graph" /\ NeedsInit(a, s) THEN initGraphAuthorization(o, a, s)
  ELSE body(o, a, s)

\* checkAllRequiredLists calls checkListExists(requiredLists[i]).
checkListExists(o, i, a, s) ==
  ensureAuthorization([o EXCEPT !.idx = i, !.listTitle = requiredLists[i],
                                 !.listData = NoValue], a, s)

resolve(o, v) == [o EXCEPT !.pc = "resolved", !.value = v]

reject(o, e) == [o EXCEPT !.pc = "rejected", !.value = e]

\* checkAllRequiredLists: the end of one round of the for loop.
nextList(o, a, s) ==
  IF o.idx = Len(requiredLists) THEN resolve(o, NoValue)
  ELSE checkListExists(o, o.idx + 1, a, s)

\* checkAllRequiredLists: `results[listTitle] = await this.checkListExists(..)`
checkAll_store(o, info, a, s) ==
  nextList([o EXCEPT !.results = (o.listTitle :> info) @@ @], a, s)

\* Mutant: the loop has no catch of its own, the error of a list escapes.
checkAll_catchList_rethrow(o, e, a, s) == reject([o EXCEPT !.logs = @ + 1], e)

\* checkAllRequiredLists: the catch around one checkListExists call; the
\* catch of checkListExists itself has logged the error once.
checkAll_catchList(o, e, a, s) ==
  nextList([o EXCEPT !.results = (o.listTitle :> [error |-> e.message]) @@ @,
                     !.logs = @ + 1], a, s)

\* Mutant: the catch fills in the errors and forgets to return.
checkAll_catchAuth_noReturn(o, a, s) ==
  checkListExists([o EXCEPT !.results =
                     [t \in Range(requiredLists) |-> [error |-> AuthFailedMessage]]],
                  1, a, s)

\* checkAllRequiredLists: the catch around the first ensureAuthorization.
checkAll_catchAuth(o, a, s) ==
  resolve([o EXCEPT !.results =
             [t \in Range(requiredLists) |-> [error |-> AuthFailedMessage]]],
          NoValue)

\* Mutant: the catch throws a new Error made of the message.
op_catch_wrap(o, e) == reject([o EXCEPT !.logs = @ + 1], Error(e.message))

\* The catch of testPrevSiteConnection, checkListExists and
\* updateFirstItemTitleField: one logError, then `throw error`.
op_catch(o, e) == reject([o EXCEPT !.logs = @ + 1], e)

\* An error is thrown inside the try block the invocation is in.
throw(o, e, a, s) ==
  IF o.kind = "checkAll"
  THEN IF o.idx = 0 THEN checkAll_catchAuth(o, a, s)
       ELSE checkAll_catchList(o, e, a, s)
  ELSE op_catch(o, e)

\* checkListExists returns its list info to whoever called it.
return_listInfo(o, info, a, s) ==
  IF o.kind = "checkAll" THEN checkAll_store(o, info, a, s) ELSE resolve(o, info)

\* Mutant: ensureAuthorization trusts initGraphAuthorization to have thrown
\* on failure and does not test the flags again.
ensure_afterInit_noRecheck(o, a, s) ==
  IF o.kind = "checkAll" /\ o.idx = 0 THEN checkListExists(o, 1, a, s)
  ELSE body(o, a, s)

\* ensureAuthorization after `await this.initGraphAuthorization()`.
ensure_afterInit(o, a, s) ==
  IF NeedsInit(a, s)
  THEN throw([o EXCEPT !.authThrewAt = @ \cup {o.idx}], Error(AuthFailedMessage), a, s)
  ELSE IF o.kind = "checkAll" /\ o.idx = 0 THEN checkListExists(o, 1, a, s)
       ELSE body(o, a, s)

\* A public operation is called: it runs up to its first await.
call(kind, title, newValue, a, s) ==
  LET o == [IdleOp EXCEPT !.kind = kind, !.listTitle = title, !.newValue = newValue] IN
  IF kind = "checkAll"
  THEN IF revision = "graph" /\ NeedsInit(a, s) THEN initGraphAuthorization(o, a, s)
       ELSE checkListExists(o, 1, a, s)
  ELSE ensureAuthorization(o, a, s)


\* ------------------------------------------------ answers of the remote site

NewValues == {"New title"}

SiteUrl == "https://kpfaie.sharepoint.com/sites/KPFAData"

\* new URL(u).pathname
pathname(u) == IF u = SiteUrl THEN "/sites/KPFAData" ELSE "/"

BareSite ==
  [id |-> "site-1", displayName |-> "KPFA Data", webUrl |-> SiteUrl,
   createdDateTime |-> "2020-01-01", lastModifiedDateTime |-> "2024-01-01"]

\* What GET /sites/{id} answers.
SiteAnswers ==
  {BareSite,
   BareSite @@ [description |-> "Data site", template |-> [displayName |-> "STS"]]}

\* A list of the remote site as Graph describes it.
GraphList(title) ==
  [id |-> "list-" \o title, displayName |-> title, description |-> "",
   webUrl |-> SiteUrl \o "/Lists/" \o title, lastModifiedDateTime |-> "2024-02-02"]

\* What GET /sites/{id}/lists?$filter=displayName eq '<title>' answers:
\* no match, or the list of that name.
ListsAnswers(title) == {[value |-> <<>>], [value |-> <<GraphList(title)>>]}

\* What GET .../items?$count=true&$top=1 answers: with or without a count.
CountAnswers == {[value |-> <<>>], ("@odata.count" :> 2) @@ [value |-> <<>>]}

\* The fields a list item may carry.
FieldsAnswers(title) == {[Title |-> title], [Title |-> title, Id |-> 99]}

\* What GET .../items?$top=1&$expand=fields answers.
ItemsAnswers ==
  {[value |-> <<>>]} \cup
  {[value |-> <<[id |-> i, fields |-> [Title |-> "Old title"]]>>] : i \in ItemIds}

\* What GET .../items/{itemId}?$expand=fields answers: the item asked for.
ItemAnswers(itemId, newValue) ==
  {[id |-> itemId, fields |-> f] : f \in FieldsAnswers(newValue)}

\* REST: what web(), lists.getByTitle(..).select(..)(), items.top(1)() and
\* items.getById(..)() answer.
WebAnswers ==
  {[Id |-> "web-1", Title |-> "KPFA Data", Url |-> SiteUrl, Created |-> "2020-01-01",
    LastItemModifiedDate |-> "2024-01-01", Description |-> d] : d \in {"", "Data site"}}

RestListAnswers(title) ==
  {[Id |-> "list-" \o title, Title |-> title, ItemCount |-> n] : n \in {0, 2}}

RestItemIds == {7, 12}

RestItemsAnswers == {<<>>} \cup {<<[Id |-> i, Title |-> "Old title"]>> : i \in RestItemIds}

RestItemAnswers(itemId, newValue) == {[Id |-> itemId, Title |-> newValue]}

\* ------------------------------------------------------ shape transformations

\* testPrevSiteConnection: Graph site -> ISiteInfo
siteInfo(siteData) ==
  [Id |-> siteData.id, Title |-> siteData.displayName, Url |-> siteData.webUrl,
   Created |-> siteData.createdDateTime,
   LastItemModifiedDate |-> siteData.lastModifiedDateTime]
  @@ (IF Truthy(siteData, "description")
      THEN [Description |-> siteData.description] ELSE <<>>)
  @@ (IF Truthy(siteData, "webUrl")
      THEN [ServerRelativeUrl |-> pathname(siteData.webUrl)] ELSE <<>>)
  @@ (IF "template" \in DOMAIN siteData
      THEN [WebTemplate |-> siteData.template.displayName] ELSE <<>>)

\* Mutant: the items of the page are counted, not the list's.
itemCount_pageLength(itemsResponse) == Len(itemsResponse.value)

\* `itemsResponse["@odata.count"] || 0`
itemCount(itemsResponse) ==
  IF "@odata.count" \in DOMAIN itemsResponse THEN itemsResponse["@odata.count"] ELSE 0

\* Mutant: the description is copied whenever the response has the property.
listInfo_anyDescription(listData, itemsResponse) ==
  [Id |-> listData.id, Title |-> listData.displayName,
   ItemCount |-> itemCount(itemsResponse)]
  @@ (IF "description" \in DOMAIN listData
      THEN [Description |-> listData.description] ELSE <<>>)
  @@ (IF Truthy(listData, "webUrl")
      THEN [DefaultViewUrl |-> listData.webUrl] ELSE <<>>)
  @@ (IF Truthy(listData, "lastModifiedDateTime")
      THEN [LastItemModifiedDate |-> listData.lastModifiedDateTime] ELSE <<>>)

\* checkListExists: Graph list + count -> IListInfo
listInfo(listData, itemsResponse) ==
  [Id |-> listData.id, Title |-> listData.displayName,
   ItemCount |-> itemCount(itemsResponse)]
  @@ (IF Truthy(listData, "description")
      THEN [Description |-> listData.description] ELSE <<>>)
  @@ (IF Truthy(listData, "webUrl")
      THEN [DefaultViewUrl |-> listData.webUrl] ELSE <<>>)
  @@ (IF Truthy(listData, "lastModifiedDateTime")
      THEN [LastItemModifiedDate |-> listData.lastModifiedDateTime] ELSE <<>>)

\* updateFirstItemTitleField: { Id: parseInt(id, 10), Title: fields.Title,
\* ...fields }: a later property of an object literal replaces an earlier one.
updatedItem(r) ==
  r.fields @@
  [Id |-> parseInt(r.id)] @@
  (IF "Title" \in DOMAIN r.fields THEN [Title |-> r.fields.Title] ELSE <<>>)

\* REST testPrevSiteConnection: IWebInfo -> ISiteInfo
restSiteInfo(webInfo) ==
  [Id |-> webInfo.Id, Title |-> webInfo.Title, Url |-> webInfo.Url,
   Created |-> webInfo.Created, LastItemModifiedDate |-> webInfo.LastItemModifiedDate]
  @@ (IF Truthy(webInfo, "Description")
      THEN [Description |-> webInfo.Description] ELSE <<>>)
  @@ (IF Truthy(webInfo, "ServerRelativeUrl")
      THEN [ServerRelativeUrl |-> webInfo.ServerRelativeUrl] ELSE <<>>)
  @@ (IF Truthy(webInfo, "WebTemplate")
      THEN [WebTemplate |-> webInfo.WebTemplate] ELSE <<>>)

\* REST checkListExists: PnP list info -> IListInfo
restListInfo(pnpListInfo) ==
  [Id |-> pnpListInfo.Id, Title |-> pnpListInfo.Title, ItemCount |-> pnpListInfo.ItemCount]
  @@ (IF Truthy(pnpListInfo, "Description")
      THEN [Description |-> pnpListInfo.Description] ELSE <<>>)
  @@ (IF Truthy(pnpListInfo, "DefaultViewUrl")
      THEN [DefaultViewUrl |-> pnpListInfo.DefaultViewUrl] ELSE <<>>)
  @@ (IF Truthy(pnpListInfo, "LastItemModifiedDate")
      THEN [LastItemModifiedDate |-> pnpListInfo.LastItemModifiedDate] ELSE <<>>)


\* --------------------------------------------------------------- the actions

\* initGraphAuthorization: the site answered with its id.
init_success(id) == [a |-> TRUE, s |-> id]

\* initGraphAuthorization: the catch of the site request.
init_failure(a, s) == [a |-> FALSE, s |-> s]

Fails == failures < MaxFailures /\ failures' = failures + 1

\* The initGraphAuthorization started by the constructor: getClient('3') answers.
CtorGetClientResolve ==
  /\ ctorPc = "getClient"
  /\ ctorPc' = "siteReq"
  /\ UNCHANGED <<outside, revision, _isAuthorized, _targetSiteId, op, opCount, failures>>

CtorGetClientReject ==
  /\ ctorPc = "getClient"
  /\ Fails
  /\ ctorPc' = "done"
  /\ UNCHANGED <<outside, revision, _isAuthorized, _targetSiteId, op, opCount>>

\* The initGraphAuthorization started by the constructor: the site answers.
CtorSiteResolve ==
  /\ ctorPc = "siteReq"
  /\ \E id \in SiteIdAnswers :
       /\ _isAuthorized' = init_success(id).a
       /\ _targetSiteId' = init_success(id).s
  /\ ctorPc' = "done"
  /\ UNCHANGED <<outside, revision, op, opCount, failures>>

CtorSiteReject ==
  /\ ctorPc = "siteReq"
  /\ Fails
  /\ _isAuthorized' = init_failure(_isAuthorized, _targetSiteId).a
  /\ _targetSiteId' = init_failure(_isAuthorized, _targetSiteId).s
  /\ ctorPc' = "done"
  /\ UNCHANGED <<outside, revision, op, opCount>>

\* A caller invokes a public operation; the previous one, if any, has settled.
Call ==
  /\ opCount < MaxOps
  /\ op.pc = "idle" \/ Terminal(op)
  /\ \E kind \in {"test", "check", "checkAll", "update"} :
       \E title \in (IF kind \in {"check", "update"} THEN ListTitles ELSE {""}) :
         \E newValue \in (IF kind = "update" THEN NewValues ELSE {""}) :
           op' = call(kind, title, newValue, _isAuthorized, _targetSiteId)
  /\ opCount' = opCount + 1
  /\ UNCHANGED <<outside, revision, _isAuthorized, _targetSiteId, ctorPc, failures>>

\* The initGraphAuthorization run by ensureAuthorization: getClient('3') answers.
AuthGetClientResolve ==
  /\ op.pc = "authClient"
  /\ op' = Issue(Settle(op, "ok", NoValue), "siteId", "authSite", _isAuthorized, _targetSiteId)
  /\ UNCHANGED <<outside, revision, _isAuthorized, _targetSiteId, ctorPc, opCount, failures>>

AuthGetClientReject ==
  /\ op.pc = "authClient"
  /\ Fails
  /\ op' = ensure_afterInit(Settle(op, "fail", ClientError), _isAuthorized, _targetSiteId)
  /\ UNCHANGED <<outside, revision, _isAuthorized, _targetSiteId, ctorPc, opCount>>

\* The initGraphAuthorization run by ensureAuthorization: the site answers.
AuthSiteResolve ==
  /\ op.pc = "authSite"
  /\ \E id \in SiteIdAnswers :
       LET st == init_success(id) IN
       /\ _isAuthorized' = st.a
       /\ _targetSiteId' = st.s
       /\ op' = ensure_afterInit(Settle(op, "ok", NoValue), st.a, st.s)
  /\ UNCHANGED <<outside, revision, ctorPc, opCount, failures>>

AuthSiteReject ==
  /\ op.pc = "authSite"
  /\ Fails
  /\ \E status \in HttpStatuses :
       LET st == init_failure(_isAuthorized, _targetSiteId) IN
       /\ _isAuthorized' = st.a
       /\ _targetSiteId' = st.s
       /\ op' = ensure_afterInit(Settle(op, "fail", HttpError(status)), st.a, st.s)
  /\ UNCHANGED <<outside, revision, ctorPc, opCount>>

\* The first Graph request of an operation's body, once the client is there.
afterClient(o, a, s) ==
  IF o.kind = "test" THEN Issue(o, "site", "site", a, s)
  ELSE Issue(o, "lists", "lists", a, s)

\* The body's getClient('3') answers.
GetClientResolve ==
  /\ op.pc = "client"
  /\ op' = afterClient(Settle(op, "ok", NoValue), _isAuthorized, _targetSiteId)
  /\ UNCHANGED <<outside, revision, _isAuthorized, _targetSiteId, ctorPc, opCount, failures>>

GetClientReject ==
  /\ op.pc = "client"
  /\ Fails
  /\ op' = throw(Settle(op, "fail", ClientError), ClientError, _isAuthorized, _targetSiteId)
  /\ UNCHANGED <<outside, revision, _isAuthorized, _targetSiteId, ctorPc, opCount>>

\* testPrevSiteConnection: GET /sites/{id} answers.
SiteResolve ==
  /\ op.pc = "site"
  /\ \E siteData \in SiteAnswers :
       op' = resolve(Settle(op, "ok", NoValue), siteInfo(siteData))
  /\ UNCHANGED <<outside, revision, _isAuthorized, _targetSiteId, ctorPc, opCount, failures>>

\* Mutant: updateFirstItemTitleField writes to item 1 without reading the
\* first item of the list.
afterLists_skipItems(o, a, s) ==
  IF o.kind = "update"
  THEN Issue([o EXCEPT !.itemId = <<"1">>], "update", "update", a, s)
  ELSE Issue(o, "count", "count", a, s)

\* The list lookup found a list: checkListExists counts its items,
\* updateFirstItemTitleField reads its first item.
afterLists(o, a, s) ==
  IF o.kind = "update" THEN Issue(o, "items", "items", a, s)
  ELSE Issue(o, "count", "count", a, s)

\* Mutant: only `!listsResponse.value` is tested, so that an empty answer
\* reaches `listData.id` of an undefined listData.
listsAnswered_noLength(o, r, a, s) ==
  IF "value" \notin DOMAIN r
  THEN throw(Settle(o, "empty", NoValue), Error(ListNotFoundMessage(o.listTitle)), a, s)
  ELSE IF Len(r.value) = 0
       THEN throw(Settle(o, "empty", NoValue),
                  Error("Cannot read properties of undefined (reading 'id')"), a, s)
       ELSE afterLists([Settle(o, "ok", NoValue) EXCEPT !.listData = r.value[1]], a, s)

\* `if (!listsResponse.value || listsResponse.value.length === 0) throw ..`
listsAnswered(o, r, a, s) ==
  IF "value" \notin DOMAIN r \/ Len(r.value) = 0
  THEN throw(Settle(o, "empty", NoValue), Error(ListNotFoundMessage(o.listTitle)), a, s)
  ELSE afterLists([Settle(o, "ok", NoValue) EXCEPT !.listData = r.value[1]], a, s)

\* checkListExists / updateFirstItemTitleField: the list lookup answers.
ListsResolve ==
  /\ op.pc = "lists"
  /\ \E r \in ListsAnswers(op.listTitle) :
       op' = listsAnswered(op, r, _isAuthorized, _targetSiteId)
  /\ UNCHANGED <<outside, revision, _isAuthorized, _targetSiteId, ctorPc, opCount, failures>>

\* checkListExists: the item count answers.
CountResolve ==
  /\ op.pc = "count"
  /\ \E r \in CountAnswers :
       op' = return_listInfo(Settle(op, "ok", NoValue), listInfo(op.listData, r),
                             _isAuthorized, _targetSiteId)
  /\ UNCHANGED <<outside, revision, _isAuthorized, _targetSiteId, ctorPc, opCount, failures>>

\* `if (!itemsResponse.value || itemsResponse.value.length === 0) throw ..`,
\* else the field update is sent.
itemsAnswered(o, r, a, s) ==
  IF "value" \notin DOMAIN r \/ Len(r.value) = 0
  THEN throw(Settle(o, "empty", NoValue), Error(NoItemsMessage(o.listTitle)), a, s)
  ELSE Issue([Settle(o, "ok", NoValue) EXCEPT !.itemId = r.value[1].id],
             "update", "update", a, s)

\* updateFirstItemTitleField: the first-item query answers.
ItemsResolve ==
  /\ op.pc = "items"
  /\ \E r \in ItemsAnswers :
       op' = itemsAnswered(op, r, _isAuthorized, _targetSiteId)
  /\ UNCHANGED <<outside, revision, _isAuthorized, _targetSiteId, ctorPc, opCount, failures>>

\* Mutant: the item is not read again; what was written is returned.
afterUpdate_skipReread(o, a, s) ==
  resolve(o, [Id |-> parseInt(o.itemId), Title |-> o.newValue])

\* updateFirstItemTitleField: after the update, the item is read again.
afterUpdate(o, a, s) == Issue(o, "item", "item", a, s)

\* updateFirstItemTitleField: the field update answers.
UpdateResolve ==
  /\ op.pc = "update"
  /\ op' = afterUpdate(Settle(op, "ok", NoValue), _isAuthorized, _targetSiteId)
  /\ UNCHANGED <<outside, revision, _isAuthorized, _targetSiteId, ctorPc, opCount, failures>>

\* updateFirstItemTitleField: the re-read of the item answers.
ItemResolve ==
  /\ op.pc = "item"
  /\ \E r \in ItemAnswers(op.itemId, op.newValue) :
       op' = resolve([Settle(op, "ok", NoValue) EXCEPT !.updatedItemResponse = r],
                     updatedItem(r))
  /\ UNCHANGED <<outside, revision, _isAuthorized, _targetSiteId, ctorPc, opCount, failures>>

\* REST testPrevSiteConnection: web() answers.
RestWebResolve ==
  /\ op.pc = "web"
  /\ \E webInfo \in WebAnswers :
       op' = resolve(Settle(op, "ok", NoValue), restSiteInfo(webInfo))
  /\ UNCHANGED <<outside, revision, _isAuthorized, _targetSiteId, ctorPc, opCount, failures>>

\* REST checkListExists: lists.getByTitle(..).select(..)() answers.
RestListResolve ==
  /\ op.pc = "list"
  /\ \E r \in RestListAnswers(op.listTitle) :
       op' = return_listInfo(Settle(op, "ok", NoValue), restListInfo(r),
                             _isAuthorized, _targetSiteId)
  /\ UNCHANGED <<outside, revision, _isAuthorized, _targetSiteId, ctorPc, opCount, failures>>

\* REST `if (items.length === 0) throw ..`, else the update is sent.
restItemsAnswered(o, items, a, s) ==
  IF Len(items) = 0
  THEN throw(Settle(o, "empty", NoValue), Error(NoItemsMessage(o.listTitle)), a, s)
  ELSE Issue([Settle(o, "ok", NoValue) EXCEPT !.itemId = items[1].Id],
             "update", "rupdate", a, s)

\* REST updateFirstItemTitleField: items.top(1)() answers.
RestItemsResolve ==
  /\ op.pc = "ritems"
  /\ \E items \in RestItemsAnswers :
       op' = restItemsAnswered(op, items, _isAuthorized, _targetSiteId)
  /\ UNCHANGED <<outside, revision, _isAuthorized, _targetSiteId, ctorPc, opCount, failures>>

\* REST updateFirstItemTitleField: the update answers; the item is read again.
RestUpdateResolve ==
  /\ op.pc = "rupdate"
  /\ op' = Issue(Settle(op, "ok", NoValue), "item", "ritem", _isAuthorized, _targetSiteId)
  /\ UNCHANGED <<outside, revision, _isAuthorized, _targetSiteId, ctorPc, opCount, failures>>

\* REST updateFirstItemTitleField: `return updatedItem as IListItem`.
RestItemResolve ==
  /\ op.pc = "ritem"
  /\ \E r \in RestItemAnswers(op.itemId, op.newValue) :
       op' = resolve([Settle(op, "ok", NoValue) EXCEPT !.updatedItemResponse = r], r)
  /\ UNCHANGED <<outside, revision, _isAuthorized, _targetSiteId, ctorPc, opCount, failures>>

\* The program points at which a request to the remote site is awaited.
SiteScopedPcs ==
  {"site", "lists", "count", "items", "update", "item",
   "web", "list", "ritems", "rupdate", "ritem"}

\* A request to the remote site is rejected: the error is thrown at the await.
HttpReject ==
  /\ op.pc \in SiteScopedPcs
  /\ Fails
  /\ \E status \in HttpStatuses :
       op' = throw(Settle(op, "fail", HttpError(status)), HttpError(status),
                   _isAuthorized, _targetSiteId)
  /\ UNCHANGED <<outside, revision, _isAuthorized, _targetSiteId, ctorPc, opCount>>

Next ==
  \/ CtorGetClientResolve \/ CtorGetClientReject \/ CtorSiteResolve \/ CtorSiteReject
  \/ Call
  \/ AuthGetClientResolve \/ AuthGetClientReject \/ AuthSiteResolve \/ AuthSiteReject
  \/ GetClientResolve \/ GetClientReject
  \/ SiteResolve \/ ListsResolve \/ CountResolve
  \/ ItemsResolve \/ UpdateResolve \/ ItemResolve
  \/ RestWebResolve \/ RestListResolve
  \/ RestItemsResolve \/ RestUpdateResolve \/ RestItemResolve
  \/ HttpReject

Spec == Init /\ [][Next]_vars


\* ------------------------------------------------------------ the properties

Reqs == op.reqs

\* Requests to the remote site itself: neither the acquisition of the Graph
\* client nor the resolution of the site id.
SiteScopedKinds == {"site", "lists", "count", "items", "update", "item", "web", "list"}

Issued(kinds) == {i \in DOMAIN Reqs : Reqs[i].kind \in kinds}

SingleOps == {"test", "check", "update"}

\* The requests one invocation of an operation makes to the remote site
\* when every step succeeds.
Steps(kind) ==
  IF revision = "graph"
  THEN CASE kind = "test" -> <<"site">>
         [] kind = "check" -> <<"lists", "count">>
         [] kind = "update" -> <<"lists", "items", "update", "item">>
  ELSE CASE kind = "test" -> <<"web">>
         [] kind = "check" -> <<"list">>
         [] kind = "update" -> <<"items", "update", "item">>

\* The requests of the body made so far to the remote site, in order.
SiteScopedTrace == SelectSeq(Reqs, LAMBDA r : r.kind \in SiteScopedKinds)

\* C1 as stated: an invocation of testPrevSiteConnection, checkListExists or
\* updateFirstItemTitleField never issues more than one HTTP request to the
\* remote site, and one that returns has issued exactly one.
C1_ExactlyOneRequest ==
  (op.kind \in SingleOps /\ Terminal(op)) =>
    /\ Cardinality(Issued(SiteScopedKinds)) <= 1
    /\ op.pc = "resolved" => Cardinality(Issued(SiteScopedKinds)) = 1

\* C1 amended: an invocation makes the requests of its steps in order, each
\* once: 1 for testPrevSiteConnection, 2 (REST: 1) for checkListExists,
\* 4 (REST: 3) for updateFirstItemTitleField; one that returns has made all of
\* them; the Graph revision adds at most one site-id request.
C1_OneRequestPerStep ==
  op.kind \in SingleOps =>
    /\ Len(SiteScopedTrace) <= Len(Steps(op.kind))
    /\ \A i \in DOMAIN SiteScopedTrace : SiteScopedTrace[i].kind = Steps(op.kind)[i]
    /\ op.pc = "resolved" => Len(SiteScopedTrace) = Len(Steps(op.kind))
    /\ Cardinality(Issued({"siteId"})) <= 1

\* C1 witness: an update of the Graph revision returned after its four requests.
C1_Witness ==
  /\ revision = "graph" /\ op.kind = "update" /\ op.pc = "resolved"
  /\ Len(SiteScopedTrace) = 4

\* C2: during one invocation of a public operation initGraphAuthorization is
\* re-run at most once, and no Graph request that failed is issued again.
C2_SingleReauthorization ==
  /\ op.initRuns <= 1
  /\ \A i, j \in DOMAIN Reqs :
       (i < j /\ Reqs[i].outcome = "fail" /\ Reqs[i].kind # "getClient")
         => ~(Reqs[j].kind = Reqs[i].kind /\ Reqs[j].target = Reqs[i].target)

\* Requests in flight: the one the constructor's initGraphAuthorization awaits
\* and the one the current invocation awaits.
InFlight ==
  (IF ctorPc \in {"getClient", "siteReq"} THEN 1 ELSE 0)
  + (IF op.pc \in {"idle", "resolved", "rejected"} THEN 0 ELSE 1)

\* C3: at most one request of the instance is in flight at any time.
C3_OneRequestInFlight == InFlight <= 1

\* C4: every request to the remote site of the Graph revision was issued while
\* _isAuthorized was true and _targetSiteId was set.
C4_AuthorizedWhenIssued ==
  revision = "graph" =>
    \A i \in Issued(SiteScopedKinds) : Reqs[i].authorized

IsErrorRecord(v) == DOMAIN v = {"error"}

IsListInfo(v) == {"Id", "Title", "ItemCount"} \subseteq DOMAIN v /\ "error" \notin DOMAIN v

\* C5: checkAllRequiredLists never rejects, and what it resolves with has
\* exactly the five required lists as keys, each a list info or an error record.
C5_CheckAllNeverRejects ==
  op.kind = "checkAll" =>
    /\ op.pc # "rejected"
    /\ op.pc = "resolved" =>
         /\ DOMAIN op.results = Range(requiredLists)
         /\ \A t \in DOMAIN op.results :
              IsListInfo(op.results[t]) \/ IsErrorRecord(op.results[t])

\* C5 witness: a check of all lists returned a list info and an error.
C5_Witness ==
  /\ op.kind = "checkAll" /\ op.pc = "resolved"
  /\ \E t \in DOMAIN op.results : IsListInfo(op.results[t])
  /\ \E t \in DOMAIN op.results : IsErrorRecord(op.results[t])

\* C6: when the authorization check at the start of checkAllRequiredLists
\* fails, the operation resolves with the authorization error for all five
\* lists and has issued no request to the remote site.
C6_AuthFailureReportsAllLists ==
  (op.kind = "checkAll" /\ 0 \in op.authThrewAt) =>
    /\ op.pc = "resolved"
    /\ op.results = [t \in Range(requiredLists) |-> [error |-> AuthFailedMessage]]
    /\ Issued(SiteScopedKinds) = {}

\* C6 witness: the first authorization check of checkAllRequiredLists failed.
C6_Witness == op.kind = "checkAll" /\ 0 \in op.authThrewAt /\ Terminal(op)


C8_ReturnsUpdatedItem ==
  (op.kind = "update" /\ op.pc = "resolved") =>
    /\ \E i \in Issued({"update"}) :
         /\ Reqs[i].outcome = "ok"
         /\ i + 1 = Len(Reqs) /\ Reqs[i + 1].kind = "item"
    /\ op.value.Id = (IF revision = "graph" THEN parseInt(op.itemId) ELSE op.itemId)
    /\ op.value.Title = (IF revision = "graph" THEN op.updatedItemResponse.fields.Title
                         ELSE op.updatedItemResponse.Title)

\* The requests of the operation's own body that were rejected.
BodyFailures == {i \in DOMAIN Reqs : Reqs[i].phase = "body" /\ Reqs[i].outcome = "fail"}

\* C9: testPrevSiteConnection, checkListExists and updateFirstItemTitleField
\* called by themselves: when ensureAuthorization throws or a request of the
\* body is rejected, the operation rejects with that very error, has logged
\* one error, and the failing request is the last one it issued; it resolves
\* with a result only when neither happened.
C9_FailurePropagates ==
  op.kind \in SingleOps =>
    /\ \A i \in BodyFailures :
         /\ i = Len(Reqs)
         /\ op.pc = "rejected"
         /\ op.value = Reqs[i].error
    /\ op.authThrewAt # {} =>
         /\ op.pc = "rejected"
         /\ op.value = Error(AuthFailedMessage)
         /\ Reqs[Len(Reqs)].phase = "auth"
    /\ op.logs = (IF op.pc = "rejected" THEN 1 ELSE 0)
    /\ op.pc = "resolved" =>
         /\ BodyFailures = {} /\ op.authThrewAt = {}
         /\ op.value # NoValue

\* C9 witness: an update was rejected because its write request failed with
\* a status code.
C9_Witness ==
  /\ op.kind = "update" /\ op.pc = "rejected"
  /\ Reqs[Len(Reqs)].kind = "update" /\ Reqs[Len(Reqs)].outcome = "fail"
  /\ op.value.statusCode # 0

\* C10: in the Graph revision a lookup that matches no list makes
\* checkListExists fail with 'List "<title>" not found' without counting
\* items, also when checkAllRequiredLists called it; checkListExists resolves
\* with a list info only after a lookup that returned a list.
C10_ListNotFound ==
  revision = "graph" =>
    /\ \A i \in Issued({"lists"}) :
         Reqs[i].outcome = "empty" =>
           /\ \A j \in Issued({"count"}) : Reqs[j].target # Reqs[i].target
           /\ op.kind = "check" =>
                op.pc = "rejected" /\ op.value = Error(ListNotFoundMessage(op.listTitle))
           /\ op.kind = "checkAll" =>
                /\ Reqs[i].target \in DOMAIN op.results
                /\ op.results[Reqs[i].target] =
                     [error |-> ListNotFoundMessage(Reqs[i].target)]
    /\ (op.kind = "check" /\ op.pc = "resolved") =>
         /\ IsListInfo(op.value)
         /\ \E i \in Issued({"lists"}) : Reqs[i].outcome = "ok"
    /\ op.kind = "checkAll" =>
         \A t \in DOMAIN op.results :
           IsListInfo(op.results[t]) =>
             \E i \in Issued({"lists"}) : Reqs[i].target = t /\ Reqs[i].outcome = "ok"

\* C10 witness: checkListExists, called by itself, found no list of that name.
C10_Witness ==
  /\ revision = "graph" /\ op.kind = "check" /\ op.pc = "rejected"
  /\ Reqs[Len(Reqs)].kind = "lists" /\ Reqs[Len(Reqs)].outcome = "empty"


\* The runs of initGraphAuthorization made by ensureAuthorization that have
\* returned: their last request, rejected or answered.
AuthRuns ==
  {i \in DOMAIN Reqs :
     /\ Reqs[i].phase = "auth"
     /\ \/ Reqs[i].kind = "getClient" /\ Reqs[i].outcome = "fail"
        \/ Reqs[i].kind = "siteId" /\ Reqs[i].outcome # "pending"}

\* The round of checkAllRequiredLists a request belongs to (0: not in a round).
RoundOf(i) ==
  IF op.kind = "checkAll" /\ Reqs[i].target # ""
  THEN CHOOSE k \in DOMAIN requiredLists : requiredLists[k] = Reqs[i].target
  ELSE 0

\* What the caller of ensureAuthorization got when it threw in round k is the
\* authorization error and nothing else.
AuthErrorDelivered(k) ==
  IF op.kind = "checkAll"
  THEN IF k = 0
       THEN op.results = [t \in Range(requiredLists) |-> [error |-> AuthFailedMessage]]
       ELSE /\ requiredLists[k] \in DOMAIN op.results
            /\ op.results[requiredLists[k]] = [error |-> AuthFailedMessage]
  ELSE op.pc = "rejected" /\ op.value = Error(AuthFailedMessage)

\* C14: ensureAuthorization of the Graph revision resolves only if the service
\* is authorized (_isAuthorized true and _targetSiteId set) at the moment it
\* returns: the request issued at its return was issued while authorized;
\* otherwise it rejects with exactly the authorization message, whatever the
\* error of the run of initGraphAuthorization was.
C14_ResolvesOnlyAuthorized ==
  revision = "graph" =>
    /\ \A i \in DOMAIN Reqs :
         (Reqs[i].kind = "getClient" /\ Reqs[i].phase = "body") => Reqs[i].authorized
    /\ \A i \in AuthRuns :
         IF RoundOf(i) \in op.authThrewAt
         THEN AuthErrorDelivered(RoundOf(i))
         ELSE /\ i < Len(Reqs)
              /\ Reqs[i + 1].kind = "getClient" /\ Reqs[i + 1].phase = "body"
              /\ Reqs[i + 1].authorized
    /\ \A k \in op.authThrewAt : AuthErrorDelivered(k)

\* C14 witness: the site refused the request of initGraphAuthorization with an
\* HTTP error, and the operation was rejected with the authorization message.
C14_Witness ==
  /\ revision = "graph" /\ op.kind \in SingleOps /\ op.pc = "rejected"
  /\ \E i \in AuthRuns : Reqs[i].kind = "siteId" /\ Reqs[i].error = HttpError(403)
  /\ op.value = Error(AuthFailedMessage)


\* ============================================== the ConnectionTest components
\*
\* The class component and the function component hold a BaseService and call
\* it from their button handlers.  What a component sees of a service
\* operation is a promise that resolves with a value or rejects with an error.

\* Bound: the handler invocations of one behaviour.
MaxClicks == 3

\* The variables of the service instance.
service == <<revision, _isAuthorized, _targetSiteId, ctorPc, op, opCount, failures>>

\* `error: string | null` holding a string
Text(s) == [text |-> s]

Whitespace == {" "}

\* String.prototype.trim on a string given as its characters.
RECURSIVE trimStart(_)
trimStart(n) ==
  IF n # <<>> /\ Head(n) \in Whitespace THEN trimStart(Tail(n)) ELSE n

RECURSIVE trimEnd(_)
trimEnd(n) ==
  IF n # <<>> /\ n[Len(n)] \in Whitespace THEN trimEnd(SubSeq(n, 1, Len(n) - 1)) ELSE n

\* Mutant: the name is tested as typed.
trim_none(n) == n

trim(n) == trimEnd(trimStart(n))

\* The string of its characters.
RECURSIVE Str(_)
Str(n) == IF n = <<>> THEN "" ELSE Head(n) \o Str(Tail(n))

\* What the user may type into the "Custom List Name" field.
CustomListNames == {<<>>, <<" ">>, <<" ", " ">>, <<"S">>, <<" ", "S", " ">>}

\* What the user may type into the list title and new title fields of the
\* class component.
TypedListTitles == {"", "Staff"}

TypedUpdateTitles == {"", "New title"}

\* The state of the function component after its first effect has run.
FuncState ==
  [component |-> "func", isLoading |-> FALSE, siteInfo |-> NoValue,
   listsInfo |-> NoValue, error |-> NoValue, customListName |-> <<>>,
   baseService |-> TRUE]

\* this.state as the constructor of the class component sets it.
ClassState ==
  [component |-> "class", loading |-> FALSE, error |-> NoValue, siteInfo |-> NoValue,
   listsCheckResult |-> NoValue, updateStatus |-> NoValue, updateTitle |-> "",
   listTitle |-> "Staff", updatedItem |-> NoValue]

\* What is recorded next to the state of a component: the service calls in
\* flight, the handler invoked last with the connection test and the siteInfo
\* it found, the handler that completed last, how the last connection test
\* stands, and the invocations so far.
NoHistory ==
  [calls |-> <<>>, invoked |-> NoValue, completed |-> "none", settled |-> "none",
   lastTest |-> "none", clicks |-> 0]

\* A handler reaches `await this._baseService.<kind>(..)`.
Await(u, h, kind, arg, arg2) ==
  [u EXCEPT !.calls = Append(@, [h |-> h, kind |-> kind, arg |-> arg, arg2 |-> arg2])]

\* ---- the function component

handleTestConnection(u) ==
  IF ~u.baseService THEN u
  ELSE Await([u EXCEPT !.isLoading = TRUE, !.siteInfo = NoValue, !.error = NoValue],
             "handleTestConnection", "test", "", "")

handleCheckLists(u) ==
  IF ~u.baseService THEN u
  ELSE Await([u EXCEPT !.isLoading = TRUE, !.listsInfo = NoValue, !.error = NoValue],
             "handleCheckLists", "checkAll", "", "")

handleCheckCustomList(u) ==
  IF ~u.baseService THEN u
  ELSE IF trim(u.customListName) = <<>>
       THEN [u EXCEPT !.error = Text("Please enter a list name")]
       ELSE Await([u EXCEPT !.isLoading = TRUE, !.error = NoValue],
                  "handleCheckCustomList", "check", Str(u.customListName), "")

\* The try block of a handler after its await resolved with v.
func_then(u, c, v) ==
  CASE c.h = "handleTestConnection" -> [u EXCEPT !.siteInfo = v]
    [] c.h = "handleCheckLists" -> [u EXCEPT !.listsInfo = v]
    [] c.h = "handleCheckCustomList" -> [u EXCEPT !.listsInfo = (c.arg :> v)]

\* The catch block of a handler; every error the service throws is an Error.
func_catch(u, c, e) ==
  CASE c.h = "handleTestConnection" ->
         [u EXCEPT !.error = Text("Connection test failed: " \o e.message)]
    [] c.h = "handleCheckLists" ->
         [u EXCEPT !.error = Text("List check failed: " \o e.message)]
    [] c.h = "handleCheckCustomList" ->
         [u EXCEPT !.error =
            Text("List check failed for \"" \o c.arg \o "\": " \o e.message)]

\* Mutant: the finally block is missing.
func_finally_missing(u) == u

\* The finally block of a handler.
func_finally(u) == [u EXCEPT !.isLoading = FALSE]

\* Mutant: the custom list button ignores isLoading.
funcDisabled_notLoading(u, b) ==
  CASE b = "Test Connection" -> u.isLoading
    [] b = "Check Standard Lists" -> u.isLoading
    [] b = "Custom List Name" -> u.isLoading
    [] b = "Check Custom List" -> trim(u.customListName) = <<>>

\* The `disabled` property of the buttons and of the text field.
funcDisabled(u, b) ==
  CASE b = "Test Connection" -> u.isLoading
    [] b = "Check Standard Lists" -> u.isLoading
    [] b = "Custom List Name" -> u.isLoading
    [] b = "Check Custom List" -> u.isLoading \/ trim(u.customListName) = <<>>

\* ---- the class component (its messages are in Russian in the source)

_testConnection(u) ==
  Await([u EXCEPT !.loading = TRUE, !.error = NoValue, !.siteInfo = NoValue,
                  !.listsCheckResult = NoValue, !.updateStatus = NoValue,
                  !.updatedItem = NoValue],
        "_testConnection", "test", "", "")

_checkLists(u) ==
  Await([u EXCEPT !.loading = TRUE, !.error = NoValue, !.listsCheckResult = NoValue,
                  !.updateStatus = NoValue, !.updatedItem = NoValue],
        "_checkLists", "checkAll", "", "")

_updateItem(u) ==
  IF u.updateTitle = ""
  THEN [u EXCEPT !.updateStatus =
          [type |-> "warning", message |-> "Enter a value for the update"]]
  ELSE Await([u EXCEPT !.loading = TRUE, !.error = NoValue, !.updateStatus = NoValue,
                       !.updatedItem = NoValue],
             "_updateItem", "update", u.listTitle, u.updateTitle)

\* The try block of a handler after its await resolved with v.
class_then(u, c, v) ==
  CASE c.h = "_testConnection" -> [u EXCEPT !.siteInfo = v, !.loading = FALSE]
    [] c.h = "_checkLists" -> [u EXCEPT !.listsCheckResult = v, !.loading = FALSE]
    [] c.h = "_updateItem" ->
         [u EXCEPT !.updatedItem = v,
                   !.updateStatus =
                      [type |-> "success",
                       message |-> "Item updated in list \"" \o c.arg \o "\""],
                   !.loading = FALSE, !.updateTitle = ""]

\* The catch block of a handler.
class_catch(u, c, e) ==
  CASE c.h = "_testConnection" ->
         [u EXCEPT !.error = Text("Connection error: " \o e.message),
                   !.loading = FALSE]
    [] c.h = "_checkLists" ->
         [u EXCEPT !.error = Text("List check error: " \o e.message),
                   !.loading = FALSE]
    [] c.h = "_updateItem" ->
         [u EXCEPT !.updateStatus =
                      [type |-> "error",
                       message |-> "Item update error: " \o e.message],
                   !.loading = FALSE]

\* Mutant: the list and update buttons do not look at siteInfo.
classDisabled_noSiteInfo(u, b) ==
  CASE b = "_testConnection" -> u.loading
    [] b = "_checkLists" -> u.loading
    [] b = "_updateItem" -> u.loading \/ u.updateTitle = ""

\* The `disabled` property of the three buttons, named by their handlers.
classDisabled(u, b) ==
  CASE b = "_testConnection" -> u.loading
    [] b = "_checkLists" -> u.loading \/ u.siteInfo = NoValue
    [] b = "_updateItem" -> u.loading \/ u.siteInfo = NoValue \/ u.updateTitle = ""

\* ---- what the service answers to a component

\* What the promise of a service call may resolve with.
Resolutions(c) ==
  CASE c.kind = "test" -> {siteInfo(d) : d \in SiteAnswers}
    [] c.kind = "checkAll" ->
         {[t \in Range(requiredLists) |-> [error |-> AuthFailedMessage]]} \cup
         {[t \in Range(requiredLists) |-> listInfo(GraphList(t), r)] : r \in CountAnswers}
    [] c.kind = "check" -> {listInfo(GraphList(c.arg), r) : r \in CountAnswers}
    [] c.kind = "update" -> {updatedItem(r) : r \in ItemAnswers(<<"7">>, c.arg2)}

\* What it may reject with; checkAllRequiredLists never rejects.
Rejections(c) ==
  IF c.kind = "checkAll" THEN {} ELSE {Error(AuthFailedMessage), HttpError(403)}

\* ---- the actions of a component

Loading(u) == IF u.component = "class" THEN u.loading ELSE u.isLoading

\* The handler h was invoked in state u0 and ran up to its await or its return.
Invoked(u0, h, u1) ==
  LET called == Len(u1.calls) > Len(u0.calls) IN
  [u1 EXCEPT !.invoked = [h |-> h, called |-> called, lastTest |-> u0.lastTest,
                          siteInfo |-> u0.siteInfo],
             !.lastTest = IF called /\ h \in {"handleTestConnection", "_testConnection"}
                          THEN "running" ELSE @,
             !.clicks = @ + 1]

\* The call c settled and its handler ran to its end.
Completed(u, c, how) ==
  [u EXCEPT !.completed = c.h, !.settled = how,
            !.lastTest = IF c.kind # "test" THEN @
                         ELSE IF how = "resolved" THEN "ok" ELSE "failed"]

Without(calls, i) == SubSeq(calls, 1, i - 1) \o SubSeq(calls, i + 1, Len(calls))

\* The user clicks an enabled button of the function component.
ClickTestConnection ==
  /\ ui.component = "func" /\ ui.clicks < MaxClicks
  /\ ~funcDisabled(ui, "Test Connection")
  /\ ui' = Invoked(ui, "handleTestConnection", handleTestConnection(ui))
  /\ UNCHANGED <<service, eq, pure>>

ClickCheckStandardLists ==
  /\ ui.component = "func" /\ ui.clicks < MaxClicks
  /\ ~funcDisabled(ui, "Check Standard Lists")
  /\ ui' = Invoked(ui, "handleCheckLists", handleCheckLists(ui))
  /\ UNCHANGED <<service, eq, pure>>

ClickCheckCustomList ==
  /\ ui.component = "func" /\ ui.clicks < MaxClicks
  /\ ~funcDisabled(ui, "Check Custom List")
  /\ ui' = Invoked(ui, "handleCheckCustomList", handleCheckCustomList(ui))
  /\ UNCHANGED <<service, eq, pure>>

\* `onChange={(_, newValue) => setCustomListName(newValue || '')}`
TypeCustomListName ==
  /\ ui.component = "func"
  /\ ~funcDisabled(ui, "Custom List Name")
  /\ \E n \in CustomListNames : ui' = [ui EXCEPT !.customListName = n]
  /\ UNCHANGED <<service, eq, pure>>

\* The user clicks an enabled button of the class component.
ClickClassTestConnection ==
  /\ ui.component = "class" /\ ui.clicks < MaxClicks
  /\ ~classDisabled(ui, "_testConnection")
  /\ ui' = Invoked(ui, "_testConnection", _testConnection(ui))
  /\ UNCHANGED <<service, eq, pure>>

ClickClassCheckLists ==
  /\ ui.component = "class" /\ ui.clicks < MaxClicks
  /\ ~classDisabled(ui, "_checkLists")
  /\ ui' = Invoked(ui, "_checkLists", _checkLists(ui))
  /\ UNCHANGED <<service, eq, pure>>

ClickClassUpdateItem ==
  /\ ui.component = "class" /\ ui.clicks < MaxClicks
  /\ ~classDisabled(ui, "_updateItem")
  /\ ui' = Invoked(ui, "_updateItem", _updateItem(ui))
  /\ UNCHANGED <<service, eq, pure>>

\* The text fields of the class component are never disabled.
_onListTitleChange ==
  /\ ui.component = "class"
  /\ \E newValue \in TypedListTitles : ui' = [ui EXCEPT !.listTitle = newValue]
  /\ UNCHANGED <<service, eq, pure>>

_onUpdateTitleChange ==
  /\ ui.component = "class"
  /\ \E newValue \in TypedUpdateTitles : ui' = [ui EXCEPT !.updateTitle = newValue]
  /\ UNCHANGED <<service, eq, pure>>

\* A service call in flight resolves: the handler that awaits it runs to its end.
CallResolves ==
  /\ ui # NoValue
  /\ \E i \in DOMAIN ui.calls :
       LET c == ui.calls[i]
           u == [ui EXCEPT !.calls = Without(@, i)] IN
       \E v \in Resolutions(c) :
         ui' = Completed(IF u.component = "class" THEN class_then(u, c, v)
                         ELSE func_finally(func_then(u, c, v)),
                         c, "resolved")
  /\ UNCHANGED <<service, eq, pure>>

\* A service call in flight rejects.
CallRejects ==
  /\ ui # NoValue
  /\ \E i \in DOMAIN ui.calls :
       LET c == ui.calls[i]
           u == [ui EXCEPT !.calls = Without(@, i)] IN
       \E e \in Rejections(c) :
         ui' = Completed(IF u.component = "class" THEN class_catch(u, c, e)
                         ELSE func_finally(func_catch(u, c, e)),
                         c, "rejected")
  /\ UNCHANGED <<service, eq, pure>>

\* A component is mounted; its service is looked at only through its promises.
InitUI ==
  /\ revision = "graph"
  /\ _isAuthorized = FALSE
  /\ _targetSiteId = NoSite
  /\ ctorPc = "getClient"
  /\ op = IdleOp
  /\ opCount = 0
  /\ failures = 0
  /\ ui \in {FuncState @@ NoHistory, ClassState @@ NoHistory}
  /\ eq = NoValue
  /\ pure = NoValue

NextUI ==
  \/ ClickTestConnection \/ ClickCheckStandardLists \/ ClickCheckCustomList
  \/ TypeCustomListName
  \/ ClickClassTestConnection \/ ClickClassCheckLists \/ ClickClassUpdateItem
  \/ _onListTitleChange \/ _onUpdateTitleChange
  \/ CallResolves \/ CallRejects

SpecUI == InitUI /\ [][NextUI]_vars

\* Every service call completes.
FairSpecUI == SpecUI /\ WF_vars(CallResolves \/ CallRejects)


\* ------------------------------------------- the properties of the components

\* C11: a handler that set the loading flag (loading of the class component,
\* isLoading of the function component) to true eventually sets it back to
\* false, whether its service call resolves or rejects, provided the call
\* completes.
C11_LoadingEventuallyCleared == Loading(ui) ~> ~Loading(ui)

\* C11 witness: a service call was rejected, its handler ran to its end and
\* the loading flag is false again.
C11_Witness ==
  /\ ui.settled = "rejected" /\ ui.calls = <<>> /\ ~Loading(ui)
  /\ ui.invoked.called

\* C12: in the class component the list check and the item update are started
\* only while siteInfo is non-null, which is so exactly when the last
\* connection test started has succeeded; while no test has succeeded, or one
\* is running or has failed, both buttons are disabled.
C12_StartedOnlyWithSiteInfo ==
  ui.component = "class" =>
    /\ (ui.invoked # NoValue /\ ui.invoked.h \in {"_checkLists", "_updateItem"}) =>
         ui.invoked.siteInfo # NoValue /\ ui.invoked.lastTest = "ok"
    /\ (ui.siteInfo # NoValue) <=> (ui.lastTest = "ok")
    /\ ui.lastTest # "ok" =>
         classDisabled(ui, "_checkLists") /\ classDisabled(ui, "_updateItem")

\* C12 witness: an item update was started after a successful connection test.
C12_Witness ==
  /\ ui.component = "class" /\ ui.invoked # NoValue
  /\ ui.invoked.h = "_updateItem" /\ ui.invoked.called

\* C13: in both components at most one service operation started from the
\* component is in flight, and the loading flag is true while one is.
C13_OneOperationInFlight ==
  /\ Len(ui.calls) <= 1
  /\ Len(ui.calls) = 1 => Loading(ui)

\* C13 witness: the function component has an operation in flight that was
\* started after an earlier one completed.
C13_Witness ==
  /\ ui.component = "func" /\ ui.clicks >= 2
  /\ ui.completed # "none" /\ Len(ui.calls) = 1

\* C16: in the function component, once handleCheckLists or
\* handleCheckCustomList has completed, error and listsInfo are not both
\* non-null.
C16_ErrorOrListsInfo ==
  (/\ ui.component = "func" /\ ui.calls = <<>>
   /\ ui.completed \in {"handleCheckLists", "handleCheckCustomList"})
    => ~(ui.error # NoValue /\ ui.listsInfo # NoValue)


\* ================================= handlers and shape transformations alone
\*
\* A handler or a transformation is applied once to an input drawn from a
\* bounded set; `pure` holds the input and then the output.

\* A response with or without the property f, empty or not.
Optional(f, v) == {<<>>, f :> "", f :> v}

\* States of the function component in which handleCheckCustomList is called.
HandlerInputs ==
  {[FuncState @@ NoHistory EXCEPT
      !.customListName = n, !.isLoading = l, !.siteInfo = si,
      !.listsInfo = li, !.error = er,
      !.calls = IF l THEN <<[h |-> "handleTestConnection", kind |-> "test",
                             arg |-> "", arg2 |-> ""]>>
                ELSE <<>>] :
     n \in CustomListNames,
     l \in BOOLEAN,
     si \in {NoValue, siteInfo(BareSite)},
     li \in {NoValue, "Staff" :> [error |-> AuthFailedMessage]},
     er \in {NoValue, Text("Connection test failed: " \o AuthFailedMessage)}}

\* Lists as GET /sites/{id}/lists may describe them.
ListDataInputs ==
  {[id |-> "list-Staff", displayName |-> "Staff"] @@ d @@ w @@ m :
     d \in Optional("description", "Staff members"),
     w \in Optional("webUrl", SiteUrl \o "/Lists/Staff"),
     m \in Optional("lastModifiedDateTime", "2024-02-02")}

\* Answers of the count request: no count, a count of 0, a count of 2.
ItemsResponseInputs ==
  {[value |-> <<>>]} \cup {("@odata.count" :> n) @@ [value |-> <<>>] : n \in {0, 2}}

\* Sites as GET /sites/{id} may describe them.
SiteDataInputs ==
  {[id |-> "site-1", displayName |-> "KPFA Data", createdDateTime |-> "2020-01-01",
    lastModifiedDateTime |-> "2024-01-01"] @@ d @@ w @@ t :
     d \in Optional("description", "Data site"),
     w \in {[webUrl |-> ""], [webUrl |-> SiteUrl]},
     t \in {<<>>, [template |-> [displayName |-> "STS"]]}}

EntryKinds == {"error", "emptyError", "noCount", "count0", "count2"}

\* An entry of an IListCheckResult for the list t.
ListEntry(t, kind) ==
  CASE kind = "error" -> [error |-> AuthFailedMessage]
    [] kind = "emptyError" -> [error |-> ""]
    [] kind = "noCount" -> [Id |-> "list-" \o t, Title |-> t]
    [] kind = "count0" -> [Id |-> "list-" \o t, Title |-> t, ItemCount |-> 0]
    [] kind = "count2" -> [Id |-> "list-" \o t, Title |-> t, ItemCount |-> 2]

\* Values of listsInfo: null, a result of checkAllRequiredLists, a custom list.
ListsInfoInputs ==
  {NoValue}
  \cup {[t \in Range(requiredLists) |-> ListEntry(t, kinds[t])] :
          kinds \in [Range(requiredLists) -> EntryKinds]}
  \cup {" S " :> ListEntry(" S ", kind) : kind \in EntryKinds}

\* The keys listsInfo can have, in the order they are inserted.
KeyOrder == requiredLists \o <<"S", " S ">>

\* Object.keys(obj)
ObjectKeys(obj) == SelectSeq(KeyOrder, LAMBDA k : k \in DOMAIN obj)

\* Mutant: an entry is an error when its error text is truthy.
listItem_truthyError(listName, info) ==
  IF Truthy(info, "error")
  THEN [name |-> listName, status |-> "Error", itemCount |-> "-", details |-> info.error]
  ELSE [name |-> listName, status |-> "OK",
        itemCount |-> IF "ItemCount" \in DOMAIN info THEN info.ItemCount ELSE 0,
        details |-> "ID: " \o (IF "Id" \in DOMAIN info THEN info.Id ELSE "undefined")]

\* getListItems: the row of one key; `'error' in info`, `info.ItemCount || 0`.
listItem(listName, info) ==
  IF "error" \in DOMAIN info
  THEN [name |-> listName, status |-> "Error", itemCount |-> "-", details |-> info.error]
  ELSE [name |-> listName, status |-> "OK",
        itemCount |-> IF "ItemCount" \in DOMAIN info THEN info.ItemCount ELSE 0,
        details |-> "ID: " \o (IF "Id" \in DOMAIN info THEN info.Id ELSE "undefined")]

getListItems(listsInfo) ==
  IF listsInfo = NoValue THEN <<>>
  ELSE LET keys == ObjectKeys(listsInfo) IN
       [i \in DOMAIN keys |-> listItem(keys[i], listsInfo[keys[i]])]

Input(fn, in) == [fn |-> fn, in |-> in, out |-> NoValue, done |-> FALSE]

PureInputs ==
  {Input("handleCheckCustomList", u) : u \in HandlerInputs}
  \cup {Input("checkListExists", [listData |-> l, itemsResponse |-> r]) :
          l \in ListDataInputs, r \in ItemsResponseInputs}
  \cup {Input("testPrevSiteConnection", d) : d \in SiteDataInputs}
  \cup {Input("getListItems", li) : li \in ListsInfoInputs}

Output(v) == [pure EXCEPT !.out = v, !.done = TRUE]

\* handleCheckCustomList is called and runs up to its await or its return.
CallHandleCheckCustomList ==
  /\ pure.fn = "handleCheckCustomList" /\ ~pure.done
  /\ pure' = Output(handleCheckCustomList(pure.in))
  /\ UNCHANGED <<service, ui, eq>>

\* checkListExists builds its IListInfo from the two responses.
BuildListInfo ==
  /\ pure.fn = "checkListExists" /\ ~pure.done
  /\ pure' = Output(listInfo(pure.in.listData, pure.in.itemsResponse))
  /\ UNCHANGED <<service, ui, eq>>

\* testPrevSiteConnection builds its ISiteInfo from the response.
BuildSiteInfo ==
  /\ pure.fn = "testPrevSiteConnection" /\ ~pure.done
  /\ pure' = Output(siteInfo(pure.in))
  /\ UNCHANGED <<service, ui, eq>>

\* The function component renders its table.
CallGetListItems ==
  /\ pure.fn = "getListItems" /\ ~pure.done
  /\ pure' = Output(getListItems(pure.in))
  /\ UNCHANGED <<service, ui, eq>>

InitPure ==
  /\ revision = "graph"
  /\ _isAuthorized = FALSE
  /\ _targetSiteId = NoSite
  /\ ctorPc = "getClient"
  /\ op = IdleOp
  /\ opCount = 0
  /\ failures = 0
  /\ ui = NoValue
  /\ eq = NoValue
  /\ pure \in PureInputs

NextPure ==
  CallHandleCheckCustomList \/ BuildListInfo \/ BuildSiteInfo \/ CallGetListItems

SpecPure == InitPure /\ [][NextPure]_vars

C18_NormalizedShapes ==
  /\ (pure.fn = "checkListExists" /\ pure.done) =>
       LET l == pure.in.listData
           r == pure.in.itemsResponse
           has(f) == f \in DOMAIN l /\ l[f] # "" IN
       /\ {"Id", "Title", "ItemCount"} \subseteq DOMAIN pure.out
       /\ DOMAIN pure.out \subseteq {"Id", "Title", "ItemCount", "Description",
                                       "DefaultViewUrl", "LastItemModifiedDate"}
       /\ pure.out.Id = l.id /\ pure.out.Title = l.displayName
       /\ "@odata.count" \in DOMAIN r => pure.out.ItemCount = r["@odata.count"]
       /\ "@odata.count" \notin DOMAIN r => pure.out.ItemCount = 0
       /\ "Description" \in DOMAIN pure.out <=> has("description")
       /\ "DefaultViewUrl" \in DOMAIN pure.out <=> has("webUrl")
       /\ "LastItemModifiedDate" \in DOMAIN pure.out <=> has("lastModifiedDateTime")
       /\ has("description") => pure.out.Description = l.description
       /\ has("webUrl") => pure.out.DefaultViewUrl = l.webUrl
       /\ has("lastModifiedDateTime") => pure.out.LastItemModifiedDate = l.lastModifiedDateTime
  /\ (pure.fn = "testPrevSiteConnection" /\ pure.done) =>
       /\ "Description" \in DOMAIN pure.out =>
            "description" \in DOMAIN pure.in /\ pure.in.description # ""
       /\ "ServerRelativeUrl" \in DOMAIN pure.out => pure.in.webUrl # ""
       /\ "WebTemplate" \in DOMAIN pure.out => "template" \in DOMAIN pure.in

\* C18 witness: a list with an empty description, a webUrl and no count.
C18_Witness ==
  /\ pure.fn = "checkListExists" /\ pure.done
  /\ "description" \in DOMAIN pure.in.listData /\ pure.in.listData.description = ""
  /\ "webUrl" \in DOMAIN pure.in.listData /\ pure.in.listData.webUrl # ""
  /\ "@odata.count" \notin DOMAIN pure.in.itemsResponse

\* C19: getListItems returns no row for a null listsInfo and otherwise
\* exactly one row per key; the row of an entry with an error field has status
\* 'Error', itemCount '-' and the error text as details, the row of any other
\* entry has status 'OK', the entry's ItemCount (0 when missing) and details
\* 'ID: <Id>'.
C19_OneRowPerKey ==
  (pure.fn = "getListItems" /\ pure.done) =>
    LET rows == pure.out IN
    IF pure.in = NoValue THEN rows = <<>>
    ELSE /\ Len(rows) = Cardinality(DOMAIN pure.in)
         /\ {rows[i].name : i \in DOMAIN rows} = DOMAIN pure.in
         /\ \A i \in DOMAIN rows :
              LET info == pure.in[rows[i].name] IN
              IF "error" \in DOMAIN info
              THEN /\ rows[i].status = "Error"
                   /\ rows[i].itemCount = "-"
                   /\ rows[i].details = info.error
              ELSE /\ rows[i].status = "OK"
                   /\ rows[i].itemCount =
                        (IF "ItemCount" \in DOMAIN info THEN info.ItemCount ELSE 0)
                   /\ rows[i].details = "ID: " \o info.Id

\* C19 witness: rows were made of entries with an error, with an empty error
\* text, without ItemCount and with a count.
C19_Witness ==
  /\ pure.fn = "getListItems" /\ pure.done /\ pure.in # NoValue
  /\ DOMAIN pure.in = Range(requiredLists)
  /\ pure.in["Staff"] = [error |-> AuthFailedMessage]
  /\ pure.in["StaffGroups"] = [error |-> ""]
  /\ "ItemCount" \notin DOMAIN pure.in["GroupMembers"]
  /\ pure.in["TypeOfWorkers"] = ListEntry("TypeOfWorkers", "count2")
  /\ Len(pure.out) = 5


\* ================== checkAllRequiredLists of the Graph and the REST revision
\*
\* An authorized instance of the Graph revision and then one of the REST
\* revision check the five lists of a remote site on which each list is found
\* with a count of items or fails with an HTTP error.

\* What the site does for one list.
Outcomes ==
  {[found |-> TRUE, count |-> n] : n \in {0, 2}}
  \cup {[found |-> FALSE, status |-> st] : st \in HttpStatuses}

\* The answer of GET .../items?$count=true&$top=1 for a list of n items.
CountAnswer(n) ==
  IF n = 0 THEN [value |-> <<>>]
  ELSE ("@odata.count" :> n) @@ [value |-> <<[id |-> <<"1">>]>>]

\* checkAllRequiredLists is called on the instance of the current revision.
EqCall ==
  /\ eq.phase \in {"graph", "rest"} /\ op.pc = "idle"
  /\ op' = call("checkAll", "", "", _isAuthorized, _targetSiteId)
  /\ UNCHANGED <<revision, _isAuthorized, _targetSiteId, ctorPc, opCount, failures,
                 ui, eq, pure>>

\* Graph: getClient('3') answers.
EqGetClient ==
  /\ eq.phase = "graph" /\ op.pc = "client"
  /\ op' = afterClient(Settle(op, "ok", NoValue), _isAuthorized, _targetSiteId)
  /\ UNCHANGED <<revision, _isAuthorized, _targetSiteId, ctorPc, opCount, failures,
                 ui, eq, pure>>

\* Graph: the list lookup answers with the list, or is rejected if the list
\* fails (a failing list may also fail only at its count request).
EqLists ==
  /\ eq.phase = "graph" /\ op.pc = "lists"
  /\ LET out == eq.scenario[op.listTitle] IN
     \/ op' = listsAnswered(op, [value |-> <<GraphList(op.listTitle)>>],
                            _isAuthorized, _targetSiteId)
     \/ /\ ~out.found
        /\ op' = throw(Settle(op, "fail", HttpError(out.status)), HttpError(out.status),
                       _isAuthorized, _targetSiteId)
  /\ UNCHANGED <<revision, _isAuthorized, _targetSiteId, ctorPc, opCount, failures,
                 ui, eq, pure>>

\* Graph: the count request answers, or is rejected if the list fails.
EqCount ==
  /\ eq.phase = "graph" /\ op.pc = "count"
  /\ LET out == eq.scenario[op.listTitle] IN
     op' = IF out.found
           THEN return_listInfo(Settle(op, "ok", NoValue),
                                listInfo(op.listData, CountAnswer(out.count)),
                                _isAuthorized, _targetSiteId)
           ELSE throw(Settle(op, "fail", HttpError(out.status)), HttpError(out.status),
                      _isAuthorized, _targetSiteId)
  /\ UNCHANGED <<revision, _isAuthorized, _targetSiteId, ctorPc, opCount, failures,
                 ui, eq, pure>>

\* REST: lists.getByTitle(..).select(..)() answers or is rejected.
EqRestList ==
  /\ eq.phase = "rest" /\ op.pc = "list"
  /\ LET out == eq.scenario[op.listTitle] IN
     op' = IF out.found
           THEN return_listInfo(Settle(op, "ok", NoValue),
                                restListInfo([Id |-> "list-" \o op.listTitle,
                                              Title |-> op.listTitle,
                                              ItemCount |-> out.count]),
                                _isAuthorized, _targetSiteId)
           ELSE throw(Settle(op, "fail", HttpError(out.status)), HttpError(out.status),
                      _isAuthorized, _targetSiteId)
  /\ UNCHANGED <<revision, _isAuthorized, _targetSiteId, ctorPc, opCount, failures,
                 ui, eq, pure>>

\* The operation settled: its result is kept, and the REST revision follows
\* the Graph revision.
EqSettled ==
  /\ eq.phase \in {"graph", "rest"} /\ Terminal(op)
  /\ eq' = IF eq.phase = "graph"
           THEN [eq EXCEPT !.phase = "rest", !.graph = [pc |-> op.pc, results |-> op.results]]
           ELSE [eq EXCEPT !.phase = "done", !.rest = [pc |-> op.pc, results |-> op.results]]
  /\ revision' = "rest"
  /\ op' = IdleOp
  /\ UNCHANGED <<_isAuthorized, _targetSiteId, ctorPc, opCount, failures, ui, pure>>

\* An instance whose authorization has succeeded, and a site.
InitEquiv ==
  /\ revision = "graph"
  /\ _isAuthorized = TRUE
  /\ _targetSiteId \in SiteIdAnswers
  /\ ctorPc = "done"
  /\ op = IdleOp
  /\ opCount = 0
  /\ failures = 0
  /\ ui = NoValue
  /\ eq \in {[phase |-> "graph", scenario |-> sc, graph |-> NoValue, rest |-> NoValue] :
               sc \in [Range(requiredLists) -> Outcomes]}
  /\ pure = NoValue

NextEquiv == EqCall \/ EqGetClient \/ EqLists \/ EqCount \/ EqRestList \/ EqSettled

SpecEquiv == InitEquiv /\ [][NextEquiv]_vars

====
